---- MODULE Spec2Model ----
(***************************************************************************)
(* Model of evohome_logger.py: one collection cycle (main) per process     *)
(* run, with the three JSON cache files under DATA_DIR as the only state   *)
(* that survives a run.  The sink (InfluxDB), the source (Evohome), DNS    *)
(* and the filesystem are the environment: each call into them either      *)
(* succeeds or raises, chosen nondeterministically.                        *)
(***************************************************************************)
EXTENDS Integers, Sequences, FiniteSets, TLC

\* ------------------------------------------------------------- bounds
\* Number of process runs (cycles) explored.
MaxCycles == 3
\* Number of lines build_points/points_to_lines yields in a cycle that yields
\* any (the zones of the installation): a cycle has no line or this many.
MaxNew == 1

\* ------------------------------------------------------------- values
\* Python's None.
None == "None"

\* parsed_influx.hostname or "": the empty string when INFLUX_URL carries no
\* hostname, otherwise the configured host (two distinct ones are enough to
\* tell "same hostname" from "another hostname").
Hostnames == {"", "influx", "other"}

\* Addresses socket.getaddrinfo may return.
Addresses == {"10.0.0.5", "10.0.0.6"}

\* The instances (process runs) that may exist; Spec runs them one at a time.
Instances == {1, 2}

\* A file that does not exist / the document held by a file that does.
NoBuffer == [exists |-> FALSE, records |-> <<>>]
NoIpCache == [exists |-> FALSE, host |-> None, ip |-> None]
NoTokenCache == [exists |-> FALSE, tokens |-> None]

\* The session/token state an EvohomeClient holds: none yet, or the tokens
\* of an authenticated session.
SessionTokens == "tokens"

\* Python truthiness of an optional string.
Truthy(v) == v # None /\ v # ""

\* The set of elements of a sequence.
Range(s) == {s[i] : i \in 1..Len(s)}

\* The encoded lines of the k points produced in cycle c.  A line carries the
\* cycle's timestamp, so lines of different cycles differ; it is modelled as
\* the pair <<cycle, index>>.
NewLines(c, k) == [i \in 1..k |-> <<c, i>>]

VARIABLES
    offline_buffer,   \* OFFLINE_BUFFER_FILE: [exists, records]
    ip_cache,         \* IP_CACHE_FILE: [exists, host, ip]
    token_cache,      \* TOKEN_CACHE_FILE: [exists, tokens]
    sinkAccepted,     \* every line of a payload write_api.write accepted
    cycles,           \* process runs started so far
    unlinkFailedEver, \* some OFFLINE_BUFFER_FILE.unlink() raised OSError
    run,              \* per instance: the locals of main and what it did
    bp,               \* build_points on one zone snapshot: its locals
    aw,               \* atomic_write_json on one cache file: file and locals
    tk                \* build_evo_client on one token document and clock

vars == <<offline_buffer, ip_cache, token_cache, sinkAccepted, cycles,
          unlinkFailedEver, run, bp, aw, tk>>

\* The unit models of build_points, atomic_write_json and build_evo_client,
\* which stand still while the collection cycle is explored.
Units == <<bp, aw, tk>>
NoBp == [pc |-> "off"]
NoAw == [pc |-> "off"]
NoTk == [pc |-> "off"]

\* The locals of a process that has not run yet.
IdleRun ==
    [pc |-> "idle", cycle |-> 0, check |-> FALSE, hostname |-> "",
     missing |-> FALSE, client_tokens |-> None,
     sourceCalled |-> FALSE, dnsCalled |-> FALSE, healthCalled |-> FALSE,
     ipWriteErr |-> FALSE, tokenWrite |-> "none", exclusive |-> TRUE,
     clientFailed |-> FALSE, fetchFailed |-> FALSE, evo_ok |-> FALSE,
     influx_ok |-> FALSE,
     dns |-> None, cacheBefore |-> NoIpCache, resolved |-> FALSE,
     resolved_ip |-> None, from_cache |-> FALSE, influx_client |-> FALSE,
     points |-> <<>>, previous |-> <<>>, payload |-> <<>>,
     sinkCalls |-> 0, sinkFailed |-> FALSE, persistErr |-> FALSE,
     unlinkErr |-> FALSE, startBuf |-> NoBuffer, bufBefore |-> NoBuffer,
     outcome |-> "none", exit |-> -1]

\* A fresh data directory and no process run yet.
InitMain ==
    /\ offline_buffer = NoBuffer
    /\ ip_cache = NoIpCache
    /\ token_cache = NoTokenCache
    /\ sinkAccepted = {}
    /\ cycles = 0
    /\ unlinkFailedEver = FALSE
    /\ run = [p \in Instances |-> IdleRun]

Init == InitMain /\ bp = NoBp /\ aw = NoAw /\ tk = NoTk

\* ------------------------------------------------- Local Durable Cache
\* try_write_json: atomic_write_json replaces the file by the new document,
\* or raises OSError before the rename and leaves the file as it was.
try_write_json(old, new, oserror) == IF oserror THEN old ELSE new

\* load_token_cache: nothing for a missing file or a document whose
\* expires_at has (nearly) passed, otherwise the cached document.
load_token_cache(file, expired) ==
    IF file.exists /\ ~expired THEN file.tokens ELSE None

\* persist_token_cache: the token attributes the client exposes are written;
\* a client exposing none of them leaves the file alone.
persist_token_cache(file, client_tokens, exposes, oserror) ==
    IF ~exposes THEN file
    ELSE try_write_json(file, [exists |-> TRUE, tokens |-> client_tokens], oserror)

\* What persist_token_cache did to the file: "none" when the client exposes
\* nothing to write, "oserror" when try_write_json failed, "replaced" when
\* the file was replaced by the client's document.
token_write(exposes, oserror) ==
    IF ~exposes THEN "none" ELSE IF oserror THEN "oserror" ELSE "replaced"

\* load_offline_records: the records of the buffer file, [] when absent.
load_offline_records(file) == IF file.exists THEN file.records ELSE <<>>

\* Faulty variant of persist_offline_records: the write is skipped whenever a buffer
\* file already exists.
persist_offline_records_keepold(file, records, oserror) ==
    IF records = <<>> \/ file.exists THEN file
    ELSE try_write_json(file, [exists |-> TRUE, records |-> records], oserror)

\* persist_offline_records: nothing is written for an empty list.
persist_offline_records(file, records, oserror) ==
    IF records = <<>> THEN file
    ELSE try_write_json(file, [exists |-> TRUE, records |-> records], oserror)

\* Faulty variant of combined_payload: the buffered lines are left out.
combined_payload_newonly(previous, lines) == lines

\* Faulty variant of combined_payload: new lines first.
combined_payload_newfirst(previous, lines) == lines \o previous

\* write_points line 413: previously buffered lines, then the new ones.
combined_payload(previous, lines) == previous \o lines

\* Faulty variant of nothing_to_write: the empty-payload return is missing.
nothing_to_write_never(payload) == FALSE

\* write_points line 415: an empty combined payload is not sent.
nothing_to_write(payload) == payload = <<>>

\* Faulty variant of unlink_buffer: the file is truncated and rewritten, not deleted.
unlink_buffer_truncate(file, oserror) ==
    IF file.exists THEN [exists |-> TRUE, records |-> <<>>] ELSE NoBuffer

\* write_points lines 422-426: after an accepted write the buffer file, if it
\* exists, is unlinked; unlink raising OSError leaves it in place.
unlink_buffer(file, oserror) ==
    IF file.exists /\ oserror THEN file ELSE NoBuffer

\* Faulty variant of rebuffer: only the lines that were not buffered before are kept.
rebuffer_tail(file, payload, oserror) ==
    persist_offline_records(file,
        SubSeq(payload, Len(load_offline_records(file)) + 1, Len(payload)),
        oserror)

\* write_points line 431: after a failed write the whole payload is persisted.
rebuffer(file, payload, oserror) ==
    persist_offline_records(file, payload, oserror)

\* Faulty variant of buffer_only: the buffered lines are appended to themselves.
buffer_only_double(file, lines, oserror) ==
    persist_offline_records(file,
        load_offline_records(file) \o load_offline_records(file) \o lines, oserror)

\* Faulty variant of buffer_only: only the new lines are written.
buffer_only_newonly(file, lines, oserror) ==
    persist_offline_records(file, lines, oserror)

\* main line 590: without a sink client the buffered lines followed by the
\* new ones are persisted.
buffer_only(file, lines, oserror) ==
    persist_offline_records(file, load_offline_records(file) \o lines, oserror)

\* Faulty variant of ExitStatus: the buffer-only path forgets sys.exit(1).
ExitStatus_buffered0(outcome) ==
    IF outcome \in {"Delivered", "CheckOk", "Buffered"} THEN 0 ELSE 1

\* The exit status main gives each way of ending: 0 when main returns after
\* write_points returned True or check_connectivity returned True, 1 from
\* every sys.exit(1).
ExitStatus(outcome) == IF outcome \in {"Delivered", "CheckOk"} THEN 0 ELSE 1

\* ---------------------------------------------------- Address Resolver
\* Faulty variant of cached_ip: the cached host is not compared.
cached_ip_anyhost(hostname, cache) == IF cache.exists THEN cache.ip ELSE None

\* cached_ip of resolve_influx_ip: the cached ip if the cached host is the
\* requested hostname.
cached_ip(hostname, cache) ==
    IF cache.exists /\ cache.host = hostname THEN cache.ip ELSE None

\* Faulty variant of resolve_influx_ip: a new address is stored under the host
\* already in the cache file.
resolve_influx_ip_keephost(hostname, cache, dns, oserror) ==
    LET cip == cached_ip(hostname, cache) IN
    IF hostname = ""
    THEN [ip |-> cip, from_cache |-> Truthy(cip), cache |-> cache]
    ELSE IF dns # None
    THEN [ip |-> dns, from_cache |-> FALSE,
          cache |-> IF dns # cip
                    THEN try_write_json(cache,
                             [exists |-> TRUE,
                              host |-> IF cache.exists THEN cache.host ELSE hostname,
                              ip |-> dns],
                             oserror)
                    ELSE cache]
    ELSE IF Truthy(cip)
    THEN [ip |-> cip, from_cache |-> TRUE, cache |-> cache]
    ELSE [ip |-> None, from_cache |-> FALSE, cache |-> cache]

\* resolve_influx_ip(hostname): dns is getaddrinfo's answer (None: gaierror),
\* oserror whether the cache write raises.  Yields the returned pair and the
\* cache file afterwards.
resolve_influx_ip(hostname, cache, dns, oserror) ==
    LET cip == cached_ip(hostname, cache) IN
    IF hostname = ""
    THEN [ip |-> cip, from_cache |-> Truthy(cip), cache |-> cache]
    ELSE IF dns # None
    THEN [ip |-> dns, from_cache |-> FALSE,
          cache |-> IF dns # cip
                    THEN try_write_json(cache,
                             [exists |-> TRUE, host |-> hostname, ip |-> dns],
                             oserror)
                    ELSE cache]
    ELSE IF Truthy(cip)
    THEN [ip |-> cip, from_cache |-> TRUE, cache |-> cache]
    ELSE [ip |-> None, from_cache |-> FALSE, cache |-> cache]

\* ------------------------------------------------------------- helpers
\* The process ends (sys.exit, or main returning) with the outcome reached.
Exit(p, r, outcome) ==
    run' = [run EXCEPT ![p] = [r EXCEPT !.pc = "done", !.outcome = outcome,
                                        !.exit = ExitStatus(outcome)]]

Goto(p, r, pc) == run' = [run EXCEPT ![p] = [r EXCEPT !.pc = pc]]

Files == <<offline_buffer, ip_cache, token_cache>>
History == <<sinkAccepted, unlinkFailedEver>>

\* --------------------------------------------------------------- main
\* A process run starts: main() up to parse_args.
Start(p) ==
    /\ run[p].pc \in {"idle", "done"}
    /\ cycles < MaxCycles
    /\ cycles' = cycles + 1
    /\ \E check \in BOOLEAN, hostname \in Hostnames :
         run' = [run EXCEPT ![p] =
                    [IdleRun EXCEPT !.pc = "get_config", !.cycle = cycles + 1,
                                    !.check = check, !.hostname = hostname,
                                    !.startBuf = offline_buffer,
                                    !.cacheBefore = ip_cache]]
    /\ UNCHANGED <<Files, History, Units>>

\* Faulty variant of GetConfig: the missing variable is logged but sys.exit(1) is
\* forgotten.
GetConfig_noexit(p) ==
    /\ run[p].pc = "get_config"
    /\ \E missing \in BOOLEAN :
         Goto(p, [run[p] EXCEPT !.missing = missing],
              IF run[p].check THEN "check_evohome" ELSE "build_evo_client")
    /\ UNCHANGED <<Files, History, cycles, Units>>

\* get_config: a missing required variable is sys.exit(1).
GetConfig(p) ==
    /\ run[p].pc = "get_config"
    /\ \E missing \in BOOLEAN :
         IF missing
         THEN Exit(p, [run[p] EXCEPT !.missing = TRUE], "ConfigMissing")
         ELSE Goto(p, run[p], IF run[p].check THEN "check_evohome"
                                              ELSE "build_evo_client")
    /\ UNCHANGED <<Files, History, cycles, Units>>

\* build_evo_client: the client is constructed with the cached tokens when
\* there are usable ones and the constructor takes them, and without them
\* otherwise (also when the first construction raised).
ClientTokens(file) ==
    {None} \cup {load_token_cache(file, expired) : expired \in BOOLEAN}

\* main: build_evo_client; its raising is sys.exit(1).
BuildEvoClient(p) ==
    /\ run[p].pc = "build_evo_client"
    /\ \E raised \in BOOLEAN, tokens \in ClientTokens(token_cache) :
         IF raised
         THEN Exit(p, [run[p] EXCEPT !.clientFailed = TRUE,
                                     !.sourceCalled = TRUE], "ClientFailed")
         ELSE Goto(p, [run[p] EXCEPT !.client_tokens = tokens,
                                     !.sourceCalled = TRUE], "fetch")
    /\ UNCHANGED <<Files, History, cycles, Units>>

\* Faulty variant of FetchEvohomeData: the exception of client.temperatures is
\* not caught and ends the process.
FetchEvohomeData_abort(p) ==
    /\ run[p].pc = "fetch"
    /\ \E raised \in BOOLEAN :
         IF raised
         THEN Exit(p, [run[p] EXCEPT !.fetchFailed = TRUE], "ClientFailed")
         ELSE Goto(p, [run[p] EXCEPT !.client_tokens = SessionTokens],
                   "persist_token")
    /\ UNCHANGED <<Files, History, cycles, Units>>

\* fetch_evohome_data: client.temperatures raising (an authentication or
\* transport error) is logged and degrades to an empty list; a call that
\* succeeds leaves the client with the tokens of its session.
FetchEvohomeData(p) ==
    /\ run[p].pc = "fetch"
    /\ \E raised \in BOOLEAN :
         Goto(p, [run[p] EXCEPT
                     !.fetchFailed = raised,
                     !.client_tokens = IF raised THEN @ ELSE SessionTokens],
              "persist_token")
    /\ UNCHANGED <<Files, History, cycles, Units>>

\* Faulty variant of PersistTokenCache: the OSError of the cache write is not
\* caught and ends the process.
PersistTokenCache_abort(p) ==
    /\ run[p].pc = "persist_token"
    /\ \E exposes \in BOOLEAN, oserror \in BOOLEAN :
         /\ token_cache' = persist_token_cache(token_cache, run[p].client_tokens,
                                               exposes, oserror)
         /\ LET r == [run[p] EXCEPT !.tokenWrite = token_write(exposes, oserror),
                                    !.client_tokens = None]
            IN IF exposes /\ oserror THEN Exit(p, r, "ClientFailed")
                                     ELSE Goto(p, r, "resolve")
    /\ UNCHANGED <<offline_buffer, ip_cache, History, cycles, Units>>

\* main line 563: persist_token_cache(evo_client), whatever the fetch did;
\* it is the last use of the client.
PersistTokenCache(p) ==
    /\ run[p].pc = "persist_token"
    /\ \E exposes \in BOOLEAN, oserror \in BOOLEAN :
         /\ token_cache' = persist_token_cache(token_cache, run[p].client_tokens,
                                               exposes, oserror)
         /\ Goto(p, [run[p] EXCEPT !.tokenWrite = token_write(exposes, oserror),
                                   !.client_tokens = None],
                 "resolve")
    /\ UNCHANGED <<offline_buffer, ip_cache, History, cycles, Units>>

\* main / check_connectivity: resolve_influx_ip(parsed_influx.hostname or "").
ResolveInfluxIp(p) ==
    /\ run[p].pc = "resolve"
    /\ \E dns \in Addresses \cup {None}, oserror \in BOOLEAN :
         LET res == resolve_influx_ip(run[p].hostname, ip_cache, dns, oserror) IN
         /\ ip_cache' = res.cache
         /\ Goto(p, [run[p] EXCEPT !.dns = dns, !.cacheBefore = ip_cache,
                                   !.resolved = TRUE,
                                   !.dnsCalled = (run[p].hostname # ""),
                                   !.ipWriteErr =
                                       (oserror /\ ip_cache #
                                          resolve_influx_ip(run[p].hostname,
                                              ip_cache, dns, FALSE).cache),
                                   !.resolved_ip = res.ip,
                                   !.from_cache = res.from_cache],
                 IF run[p].check THEN "check_influx" ELSE "create_influx_client")
    /\ UNCHANGED <<offline_buffer, token_cache, History, cycles, Units>>

\* main: the sink client is created only for a resolved ip (resolved_url is
\* never empty), and create_influx_client may raise.
CreateInfluxClient(p) ==
    /\ run[p].pc = "create_influx_client"
    /\ \E raised \in BOOLEAN :
         Goto(p, [run[p] EXCEPT !.influx_client =
                                   Truthy(run[p].resolved_ip) /\ ~raised],
              "build_points")
    /\ UNCHANGED <<Files, History, cycles, Units>>

\* main: build_points and points_to_lines; no line or MaxNew lines (the
\* installation query, tried separately, may yield hot-water points even
\* when the snapshot fetch failed), none when there are neither snapshots
\* (always so after a failed fetch) nor topology.
BuildPoints(p) ==
    /\ run[p].pc = "build_points"
    /\ \E snapshots \in BOOLEAN, topology \in BOOLEAN :
       \E k \in {0, IF (~run[p].fetchFailed /\ snapshots) \/ topology
                       THEN MaxNew ELSE 0} :
         Goto(p, [run[p] EXCEPT !.points = NewLines(run[p].cycle, k)],
              IF run[p].influx_client THEN "write_points" ELSE "buffer_only")
    /\ UNCHANGED <<Files, History, cycles, Units>>

\* main, no sink client: persist_offline_records(load_offline_records() +
\* points_to_lines(points)), then sys.exit(1).
BufferOnly(p) ==
    /\ run[p].pc = "buffer_only"
    /\ \E oserror \in BOOLEAN :
         /\ offline_buffer' = buffer_only(offline_buffer, run[p].points, oserror)
         /\ Exit(p, [run[p] EXCEPT
                       !.bufBefore = offline_buffer,
                       !.persistErr =
                           (load_offline_records(offline_buffer) \o run[p].points # <<>>
                            /\ oserror)],
                 "Buffered")
    /\ UNCHANGED <<ip_cache, token_cache, History, cycles, Units>>

\* write_points, up to the empty-payload return.
WritePointsLoad(p) ==
    /\ run[p].pc = "write_points"
    /\ LET previous == load_offline_records(offline_buffer)
           payload == combined_payload(previous, run[p].points)
           r == [run[p] EXCEPT !.previous = previous, !.payload = payload,
                               !.bufBefore = offline_buffer]
       IN IF nothing_to_write(payload)
          THEN Exit(p, r, "Delivered")
          ELSE Goto(p, r, "sink_write")
    /\ UNCHANGED <<Files, History, cycles, Units>>

\* write_points: write_api.write(record=payload) is accepted as a whole or
\* raises.
SinkWrite(p) ==
    /\ run[p].pc = "sink_write"
    /\ \E raised \in BOOLEAN :
         /\ sinkAccepted' = IF raised THEN sinkAccepted
                            ELSE sinkAccepted \cup Range(run[p].payload)
         /\ Goto(p, [run[p] EXCEPT !.sinkCalls = @ + 1, !.sinkFailed = raised],
                 IF raised THEN "rebuffer" ELSE "clear_buffer")
    /\ UNCHANGED <<Files, unlinkFailedEver, cycles, Units>>

\* write_points after an accepted write: the buffer file, if it exists, is
\* unlinked; an OSError from unlink is logged.  Returns True: main returns.
ClearBuffer(p) ==
    /\ run[p].pc = "clear_buffer"
    /\ \E oserror \in BOOLEAN :
         LET failed == offline_buffer.exists /\ oserror IN
         /\ offline_buffer' = unlink_buffer(offline_buffer, oserror)
         /\ unlinkFailedEver' = (unlinkFailedEver \/ failed)
         /\ Exit(p, [run[p] EXCEPT !.unlinkErr = failed], "Delivered")
    /\ UNCHANGED <<ip_cache, token_cache, sinkAccepted, cycles, Units>>

\* write_points after a failed write: persist_offline_records(payload), then
\* return False: main exits 1.
Rebuffer(p) ==
    /\ run[p].pc = "rebuffer"
    /\ \E oserror \in BOOLEAN :
         /\ offline_buffer' = rebuffer(offline_buffer, run[p].payload, oserror)
         /\ Exit(p, [run[p] EXCEPT !.persistErr = oserror], "Failed")
    /\ UNCHANGED <<ip_cache, token_cache, History, cycles, Units>>

\* ------------------------------------------------- check_connectivity
\* The source probe: build_evo_client, temperatures and persist_token_cache
\* in one try block; an exception from the first two skips what follows.
CheckEvohome(p) ==
    /\ run[p].pc = "check_evohome"
    /\ \E raised \in BOOLEAN, exposes \in BOOLEAN, oserror \in BOOLEAN :
         /\ token_cache' = IF raised THEN token_cache
                           ELSE persist_token_cache(token_cache, SessionTokens,
                                                    exposes, oserror)
         /\ Goto(p, [run[p] EXCEPT
                       !.evo_ok = ~raised, !.fetchFailed = raised,
                       !.sourceCalled = TRUE,
                       !.tokenWrite = IF raised THEN "none"
                                      ELSE token_write(exposes, oserror)],
                 "resolve")
    /\ UNCHANGED <<offline_buffer, ip_cache, History, cycles, Units>>

\* Faulty variant of CheckInflux: main does not exit after check_connectivity
\* and runs on into the collection cycle.
CheckInflux_fallthrough(p) ==
    /\ run[p].pc = "check_influx"
    /\ \E healthy \in BOOLEAN :
         Goto(p, [run[p] EXCEPT !.influx_ok = healthy, !.healthCalled = TRUE,
                                !.influx_client = healthy],
              "build_points")
    /\ UNCHANGED <<Files, History, cycles, Units>>

\* The sink probe: skipped for an unresolved non-empty hostname, otherwise
\* health() must answer pass/ok/healthy.  main exits 0 iff both probes passed.
CheckInflux(p) ==
    /\ run[p].pc = "check_influx"
    /\ \E healthy \in BOOLEAN :
         LET influx_ok ==
                 IF run[p].hostname # "" /\ ~Truthy(run[p].resolved_ip)
                 THEN FALSE ELSE healthy
             success == run[p].evo_ok /\ influx_ok
         IN Exit(p, [run[p] EXCEPT
                       !.influx_ok = influx_ok,
                       !.healthCalled =
                           ~(run[p].hostname # "" /\ ~Truthy(run[p].resolved_ip))],
                 IF success THEN "CheckOk" ELSE "CheckFailed")
    /\ UNCHANGED <<Files, History, cycles, Units>>

\* One step of instance p.
Cycle(p) ==
    \/ Start(p)
    \/ GetConfig(p)
    \/ BuildEvoClient(p)
    \/ FetchEvohomeData(p)
    \/ PersistTokenCache(p)
    \/ ResolveInfluxIp(p)
    \/ CreateInfluxClient(p)
    \/ BuildPoints(p)
    \/ BufferOnly(p)
    \/ WritePointsLoad(p)
    \/ SinkWrite(p)
    \/ ClearBuffer(p)
    \/ Rebuffer(p)
    \/ CheckEvohome(p)
    \/ CheckInflux(p)

\* Single-instance deployment: the scheduler starts the one instance again
\* and again.
Next == Cycle(1)

Spec == Init /\ [][Next]_vars

\* ------------------------------------------- two instances, one DATA_DIR
\* Nothing in main keeps a second process from running against the same
\* data directory.  A process run is taken from the point where main has its
\* points and either a sink client (write_points follows) or none (the
\* buffer-only write follows); exclusive records that no run has yet started
\* while another one was under way.
EnterDelivery(p) ==
    /\ run[p].pc \in {"idle", "done"}
    /\ cycles < MaxCycles
    /\ cycles' = cycles + 1
    /\ \E k \in {0, MaxNew}, influx_client \in BOOLEAN :
         run' = [run EXCEPT ![p] =
                    [IdleRun EXCEPT
                        !.pc = IF influx_client THEN "write_points" ELSE "buffer_only",
                        !.cycle = cycles + 1,
                        !.resolved = TRUE,
                        !.influx_client = influx_client,
                        !.points = NewLines(cycles + 1, k),
                        !.startBuf = offline_buffer,
                        !.cacheBefore = ip_cache,
                        !.exclusive =
                            /\ \A q \in Instances : run[q].exclusive
                            /\ \A q \in Instances \ {p} :
                                   run[q].pc \in {"idle", "done"}]]
    /\ UNCHANGED <<Files, History, Units>>

\* One step of either instance, in any interleaving.
NextConcurrent ==
    \E p \in Instances :
        \/ EnterDelivery(p)
        \/ BufferOnly(p)
        \/ WritePointsLoad(p)
        \/ SinkWrite(p)
        \/ ClearBuffer(p)
        \/ Rebuffer(p)

SpecConcurrent == Init /\ [][NextConcurrent]_vars

\* ------------------------------------------------- Record Transformer
\* JSON values as Python sees them: None, a number, a string, a list.
PyNone == [none |-> TRUE]
Num(n) == [num |-> n]
Str(s) == [str |-> s]
List(l) == [list |-> l]

\* Python truthiness of a JSON value.
PyTruthy(v) == v # PyNone /\ v # Num(0) /\ v # Str("") /\ v # List(<<>>)

\* float(str): the strings that spell a number, and the number each spells.
ParseFloat == [s \in {"19", "0"} |-> IF s = "19" THEN 19 ELSE 0]

\* safe_float: None stays None, a number is kept, a string is parsed, and
\* whatever float() rejects (TypeError, ValueError) becomes None.
safe_float(value) ==
    IF value = PyNone THEN PyNone
    ELSE IF DOMAIN value = {"num"} THEN value
    ELSE IF DOMAIN value = {"str"} /\ value.str \in DOMAIN ParseFloat
    THEN Num(ParseFloat[value.str])
    ELSE PyNone

\* dict.get(key): None for a key the mapping does not hold.
Get(mapping, key) == IF key \in DOMAIN mapping THEN mapping[key] ELSE PyNone

\* The first truthy identifier of a chain of "or", None when there is none.
FirstTruthy(ids) ==
    IF \E i \in 1..Len(ids) : Truthy(ids[i])
    THEN ids[CHOOSE i \in 1..Len(ids) :
                 Truthy(ids[i]) /\ \A j \in 1..(i - 1) : ~Truthy(ids[j])]
    ELSE None

\* extract_zone_meta line 285: zoneId, then zoneID, then id, else "".
topology_identity(zone) ==
    LET first == FirstTruthy(<<zone.zoneId, zone.zoneID, zone.id>>)
    IN IF first = None THEN "" ELSE first

\* build_points line 328: id, then zoneId, then zoneID, then name, else
\* "unknown".
snapshot_identity(zone) ==
    LET first == FirstTruthy(<<zone.id, zone.zoneId, zone.zoneID, zone.name>>)
    IN IF first = None THEN "unknown" ELSE first

\* The ZoneMeta entry extract_zone_meta builds for a topology zone.
zone_meta_entry(zone) ==
    [heat_demand |-> zone.heatDemand,
     targetHeatTemperature |-> zone.targetHeatTemperature,
     status |-> zone.status,
     temperature |-> zone.temperature,
     active_faults |-> IF PyTruthy(zone.activeFaults) THEN zone.activeFaults
                       ELSE List(<<>>)]

\* extract_zone_meta: the entries of the topology zones that have an identity,
\* keyed by it.
extract_zone_meta(installation) ==
    [zone_id \in {topology_identity(z) : z \in installation} \ {""} |->
        zone_meta_entry(CHOOSE z \in installation : topology_identity(z) = zone_id)]

\* Faulty variant of fallback: the snapshot's value gives way whenever it is falsy.
fallback_truthy(snapshot_value, meta_value) ==
    IF PyTruthy(safe_float(snapshot_value)) THEN safe_float(snapshot_value)
    ELSE safe_float(meta_value)

\* build_points lines 339-355: the snapshot's value, and the ZoneMeta value
\* only if safe_float gave None for it.
fallback(snapshot_value, meta_value) ==
    IF safe_float(snapshot_value) = PyNone THEN safe_float(meta_value)
    ELSE safe_float(snapshot_value)

\* build_points line 357: status, then mode, then the ZoneMeta status.
zone_status(zone, meta) ==
    IF PyTruthy(zone.status) THEN zone.status
    ELSE IF PyTruthy(zone.mode) THEN zone.mode
    ELSE Get(meta, "status")

\* build_points lines 361-363: meta.get("active_faults") or [], counted when
\* it is a list.
fault_count(meta) ==
    LET faults == IF PyTruthy(Get(meta, "active_faults"))
                  THEN Get(meta, "active_faults") ELSE List(<<>>)
    IN IF DOMAIN faults = {"list"} THEN Num(Len(faults.list)) ELSE PyNone

\* build_points lines 328-363 for one snapshot: the fields set on its Point
\* (None: the field is not set).
build_point(zone, zone_meta) ==
    LET zone_id == snapshot_identity(zone)
        meta == IF zone_id \in DOMAIN zone_meta THEN zone_meta[zone_id] ELSE <<>>
        status == zone_status(zone, meta)
    IN [zone_id |-> zone_id,
        temperature |-> fallback(zone.temp, Get(meta, "temperature")),
        setpoint |-> fallback(zone.setpoint, Get(meta, "targetHeatTemperature")),
        heat_demand |-> fallback(zone.heat_demand, Get(meta, "heat_demand")),
        status |-> IF PyTruthy(status) THEN status ELSE PyNone,
        fault_count |-> fault_count(meta)]

\* Point.to_line_protocol(): empty for a point without any field.
to_line_protocol(point) ==
    \E f \in {"temperature", "setpoint", "heat_demand", "status", "fault_count"} :
        point[f] # PyNone

\* The inputs explored.  Identifier fields: missing, empty, or one of two ids.
IdValues == {None, "", "A", "B"}
\* Snapshot readings: missing, zero, a numeric string, a non-numeric string.
SnapshotValues == {PyNone, Num(0), Str("19"), Str("n/a")}
\* Topology readings: missing, a number, a non-numeric string.
MetaValues == {PyNone, Num(18), Str("n/a")}

\* A snapshot and a topology zone with nothing but identifiers.
BareSnapshot(id, zoneId, zoneID, name) ==
    [id |-> id, zoneId |-> zoneId, zoneID |-> zoneID, name |-> name,
     temp |-> PyNone, setpoint |-> PyNone, heat_demand |-> PyNone,
     status |-> PyNone, mode |-> PyNone]
BareZone(id, zoneId, zoneID) ==
    [id |-> id, zoneId |-> zoneId, zoneID |-> zoneID,
     heatDemand |-> PyNone, targetHeatTemperature |-> PyNone,
     temperature |-> PyNone, status |-> PyNone, activeFaults |-> PyNone]

\* Every combination of identifier fields, on the snapshot and on at most
\* one topology zone.
Snapshots_ids ==
    {BareSnapshot(i, z1, z2, n) : i \in {None, "A", "B"}, z1 \in {None, "A", "B"},
                                  z2 \in {None, "", "B"}, n \in {None, "Hall"}}
Installations_ids ==
    {{}} \cup {{BareZone(i, z1, z2)} : i \in IdValues, z1 \in {None, "A", "B"},
                                       z2 \in {None, "B"}}

\* Every combination of readings, on a snapshot "A" and on a topology that is
\* empty, or holds zone "A", or holds only zone "B".
Snapshots_values ==
    {[BareSnapshot("A", None, None, None) EXCEPT
        !.temp = t, !.setpoint = s, !.heat_demand = h, !.status = st, !.mode = m] :
     t \in SnapshotValues, s \in SnapshotValues, h \in SnapshotValues,
     st \in {PyNone, Str("auto")}, m \in {PyNone, Str("heat")}}
Zones_values ==
    {[BareZone(None, "A", None) EXCEPT
        !.temperature = t, !.targetHeatTemperature = s, !.heatDemand = h,
        !.status = st, !.activeFaults = f] :
     t \in MetaValues, s \in MetaValues, h \in MetaValues,
     st \in {PyNone, Str("sched")}, f \in {PyNone, List(<<"fault">>)}}
Installations_values ==
    {{}, {BareZone(None, "B", None)}} \cup {{z} : z \in Zones_values}

\* build_points is entered with one snapshot and the installation.
StartBp(zone, installation) ==
    [pc |-> "extract_zone_meta", zone |-> zone, installation |-> installation,
     zone_meta |-> <<>>, point |-> <<>>, points |-> <<>>]

InitPoints ==
    /\ InitMain /\ aw = NoAw /\ tk = NoTk
    /\ \/ \E zone \in Snapshots_ids, installation \in Installations_ids :
            bp = StartBp(zone, installation)
       \/ \E zone \in Snapshots_values, installation \in Installations_values :
            bp = StartBp(zone, installation)

\* build_points line 324: zone_meta = extract_zone_meta(installation).
ExtractZoneMeta ==
    /\ bp.pc = "extract_zone_meta"
    /\ bp' = [bp EXCEPT !.pc = "build_point",
                        !.zone_meta = extract_zone_meta(bp.installation)]
    /\ UNCHANGED <<Files, History, cycles, run, aw, tk>>

\* build_points lines 327-365: the Point of the snapshot.
BuildZonePoint ==
    /\ bp.pc = "build_point"
    /\ bp' = [bp EXCEPT !.pc = "append",
                        !.point = build_point(bp.zone, bp.zone_meta)]
    /\ UNCHANGED <<Files, History, cycles, run, aw, tk>>

\* build_points lines 366-367: the point is kept if it encodes to a line.
AppendPoint ==
    /\ bp.pc = "append"
    /\ bp' = [bp EXCEPT !.pc = "done",
                        !.points = IF to_line_protocol(bp.point)
                                   THEN Append(@, bp.point) ELSE @]
    /\ UNCHANGED <<Files, History, cycles, run, aw, tk>>

NextPoints == ExtractZoneMeta \/ BuildZonePoint \/ AppendPoint

SpecPoints == InitPoints /\ [][NextPoints]_vars

\* --------------------------------------------------- atomic_write_json
\* Chunks json.dump hands to handle.write for one document.
DocChunks == 2
\* Calls of atomic_write_json on the file that are explored.
MaxWrites == 2

\* The serialized document of the v-th write, and the content of a file: a
\* document is complete when every chunk of it is there.
Doc(v) == [i \in 1..DocChunks |-> <<v, i>>]
NoFile == [exists |-> FALSE, content |-> <<>>]
File(content) == [exists |-> TRUE, content |-> content]
Complete(file) == file.exists => \E v \in 1..(MaxWrites + 1) : file.content = Doc(v)

\* A cache file that was never written, one writer that is not writing, and
\* a reader that has not read.
StartAw ==
    [pc |-> "idle", target |-> NoFile, tmp |-> NoFile, old |-> NoFile,
     payload |-> 0, writes |-> 0, crashed |-> FALSE, seen |-> NoFile, reads |-> 0]

InitAtomic == InitMain /\ bp = NoBp /\ tk = NoTk /\ aw = StartAw

\* atomic_write_json(path, payload) is called (mkdir of the parent included).
BeginWrite ==
    /\ aw.pc = "idle" /\ aw.writes < MaxWrites
    /\ aw' = [aw EXCEPT !.pc = "open", !.writes = @ + 1, !.payload = aw.writes + 1,
                        !.old = aw.target, !.crashed = FALSE]
    /\ UNCHANGED <<Files, History, cycles, run, bp, tk>>

\* tmp_path.open("w"): the temporary file is created, or truncated if an
\* earlier write left one behind.
OpenTmp ==
    /\ aw.pc = "open"
    /\ aw' = [aw EXCEPT !.pc = "dump", !.tmp = File(<<>>)]
    /\ UNCHANGED <<Files, History, cycles, run, bp, tk>>

\* Faulty variant of DumpChunk: the document is written into the cache file itself.
DumpChunk_inplace ==
    /\ aw.pc = "dump"
    /\ LET n == Len(aw.tmp.content) + 1
           content == Append(aw.tmp.content, Doc(aw.payload)[n])
       IN aw' = [aw EXCEPT !.tmp = File(content), !.target = File(content),
                           !.pc = IF n = DocChunks THEN "replace" ELSE "dump"]
    /\ UNCHANGED <<Files, History, cycles, run, bp, tk>>

\* json.dump(payload, handle): the next chunk reaches the temporary file;
\* after the last one the with block closes it.
DumpChunk ==
    /\ aw.pc = "dump"
    /\ LET n == Len(aw.tmp.content) + 1
       IN aw' = [aw EXCEPT !.tmp = File(Append(aw.tmp.content, Doc(aw.payload)[n])),
                           !.pc = IF n = DocChunks THEN "replace" ELSE "dump"]
    /\ UNCHANGED <<Files, History, cycles, run, bp, tk>>

\* tmp_path.replace(path): the rename puts the temporary file in the place
\* of the cache file in one step.
Replace ==
    /\ aw.pc = "replace"
    /\ aw' = [aw EXCEPT !.pc = "idle", !.target = aw.tmp, !.tmp = NoFile]
    /\ UNCHANGED <<Files, History, cycles, run, bp, tk>>

\* The writer dies, or a step raises OSError, anywhere between the call and
\* the rename: the files stay as they are at that moment.
Crash ==
    /\ aw.pc \in {"open", "dump", "replace"}
    /\ aw' = [aw EXCEPT !.pc = "idle", !.crashed = TRUE]
    /\ UNCHANGED <<Files, History, cycles, run, bp, tk>>

\* load_json(path) by a reader, at any moment: it opens the cache file (never
\* the temporary one) and reads what that file holds.
ReadJson ==
    /\ aw.reads < MaxWrites + 1
    /\ aw' = [aw EXCEPT !.seen = aw.target, !.reads = @ + 1]
    /\ UNCHANGED <<Files, History, cycles, run, bp, tk>>

NextAtomic == BeginWrite \/ OpenTmp \/ DumpChunk \/ Replace \/ Crash \/ ReadJson

SpecAtomic == InitAtomic /\ [][NextAtomic]_vars

\* ---------------------------------------------------- build_evo_client
\* load_token_cache line 89: the cached document is dropped this many seconds
\* before it expires.
REFRESH_MARGIN == 60
\* Seconds of clock explored on either side of the margin.
MaxNow == 8

\* load_token_cache lines 86-93: a document is expired when it carries an
\* expires_at (tested for truth) and the clock has passed expires_at less the
\* margin; an expires_at that float() rejects is not looked at.
token_expired(expires_at, now) ==
    /\ PyTruthy(expires_at)
    /\ safe_float(expires_at) # PyNone
    /\ now > safe_float(expires_at).num - REFRESH_MARGIN

\* The token documents explored: no file, a document without expires_at,
\* with a non-numeric one, with expires_at 0, and with every expires_at that
\* puts the margin inside the clock's range.
ExpiryValues ==
    {PyNone, Str("n/a"), Num(0)} \cup {Num(REFRESH_MARGIN + e) : e \in 0..MaxNow}
TokenFiles ==
    {[exists |-> FALSE, tokens |-> None, expires_at |-> PyNone]}
      \cup {[exists |-> TRUE, tokens |-> SessionTokens, expires_at |-> e] :
            e \in ExpiryValues}

InitToken ==
    /\ InitMain /\ bp = NoBp /\ aw = NoAw
    /\ \E file \in TokenFiles, now \in 0..MaxNow :
         tk = [pc |-> "load_token_cache", file |-> file, now |-> now,
               tokens |-> None, client |-> "none"]

\* build_evo_client line 220: tokens = load_token_cache(logger), at
\* time.time() = now.
LoadTokenCache ==
    /\ tk.pc = "load_token_cache"
    /\ tk' = [tk EXCEPT !.pc = "construct",
                        !.tokens = load_token_cache(tk.file,
                                       token_expired(tk.file.expires_at, tk.now))]
    /\ UNCHANGED <<Files, History, cycles, run, bp, aw>>

\* build_evo_client lines 222-249: the client is constructed with the cached
\* tokens when there are some, the constructor takes them and does not
\* raise; otherwise without them.
ConstructClient ==
    /\ tk.pc = "construct"
    /\ \E accepts \in BOOLEAN, raised \in BOOLEAN :
         tk' = [tk EXCEPT !.pc = "done",
                          !.client = IF Truthy(tk.tokens) /\ accepts /\ ~raised
                                     THEN "cached" ELSE "fresh"]
    /\ UNCHANGED <<Files, History, cycles, run, bp, aw>>

NextToken == LoadTokenCache \/ ConstructClient

SpecToken == InitToken /\ [][NextToken]_vars

\* ------------------------------------------------------------ claims
\* A collection cycle (not --check) of instance p has ended.
CycleDone(p) == run[p].pc = "done" /\ ~run[p].check

\* The lines a cycle is answerable for: those in the buffer when it started
\* and those it produced.
Owed(p) == Range(load_offline_records(run[p].startBuf)) \cup Range(run[p].points)

\* C1: at the end of every collection cycle whose only faults are sink write
\* failures and hostname-resolution failures (the buffer write itself did not
\* raise), every line that was buffered when the cycle started or that the
\* cycle produced has been accepted by the sink or is in the offline buffer
\* file.
C1_NoDataDropped ==
    \A p \in Instances :
        (CycleDone(p) /\ ~run[p].persistErr) =>
            \A l \in Owed(p) :
                l \in sinkAccepted \/ l \in Range(load_offline_records(offline_buffer))

\* C1 witness: a third cycle, after one that delivered and one that buffered,
\* started with buffered lines, produced lines of its own and met a sink
\* write failure.
C1_Witness ==
    /\ CycleDone(1) /\ run[1].cycle = 3
    /\ run[1].sinkFailed /\ ~run[1].persistErr
    /\ run[1].startBuf.records # <<>> /\ run[1].points # <<>>
    /\ sinkAccepted # {}

\* C2 as stated: after a failed sink write of the combined payload the buffer
\* file holds exactly the payload's lines, in order.
C2_Original ==
    \A p \in Instances :
        (CycleDone(p) /\ run[p].outcome = "Failed") =>
            offline_buffer = [exists |-> TRUE, records |-> run[p].payload]

\* C2 amended: the payload of a failed sink write is the previously buffered
\* lines followed by the new ones, and afterwards the buffer file holds
\* exactly that payload, replacing the previous contents, unless the buffer
\* write raised OSError, in which case the file is left as it was.
C2_AllOrNothing ==
    \A p \in Instances :
        (CycleDone(p) /\ run[p].outcome = "Failed") =>
            /\ run[p].payload =
                   load_offline_records(run[p].bufBefore) \o run[p].points
            /\ run[p].payload # <<>>
            /\ offline_buffer =
                   IF run[p].persistErr THEN run[p].bufBefore
                   ELSE [exists |-> TRUE, records |-> run[p].payload]

\* C2 witness: a failed write of old and new lines, re-buffered in full.
C2_Witness ==
    /\ CycleDone(1) /\ run[1].outcome = "Failed" /\ ~run[1].persistErr
    /\ run[1].previous # <<>> /\ run[1].points # <<>>
    /\ Len(offline_buffer.records) = Len(run[1].previous) + Len(run[1].points)

\* write_points returned True after a sink write (a non-empty payload).
DeliveredByWrite(p) ==
    CycleDone(p) /\ run[p].outcome = "Delivered" /\ run[p].sinkCalls > 0

\* C3 as stated: after a successful write the payload held every buffered
\* line and the buffer file no longer exists.
C3_Original ==
    \A p \in Instances :
        DeliveredByWrite(p) =>
            /\ Range(load_offline_records(run[p].bufBefore)) \subseteq Range(run[p].payload)
            /\ ~offline_buffer.exists

\* C3 amended: after a successful write of a non-empty payload the payload
\* held every previously buffered line and was accepted; the buffer file no
\* longer exists, unless unlink raised OSError, in which case it is left
\* exactly as it was (never rewritten).  As long as no unlink has failed, no
\* payload handed to the sink holds a line the sink already accepted.
C3_ClearedOnSuccess ==
    /\ \A p \in Instances :
           DeliveredByWrite(p) =>
               /\ Range(load_offline_records(run[p].bufBefore)) \subseteq Range(run[p].payload)
               /\ Range(run[p].payload) \subseteq sinkAccepted
               /\ offline_buffer = IF run[p].unlinkErr THEN run[p].bufBefore ELSE NoBuffer
    /\ \A p \in Instances :
           (run[p].pc = "sink_write" /\ ~unlinkFailedEver) =>
               Range(run[p].payload) \cap sinkAccepted = {}

\* C3 witness: buffered lines were delivered and the file was deleted.
C3_Witness ==
    /\ DeliveredByWrite(1) /\ run[1].bufBefore.exists /\ ~run[1].unlinkErr
    /\ ~offline_buffer.exists

\* The lines of a sequence are in cycle order.
CycleOrdered(s) == \A i, j \in 1..Len(s) : i < j => s[i][1] <= s[j][1]

\* C4: every payload handed to the sink is the buffered lines followed by the
\* cycle's new lines, so is every buffer content written on failure or in
\* buffer-only mode, and in both the lines of an earlier cycle precede the
\* lines of a later one.
C4_BufferedFirst ==
    /\ \A p \in Instances :
           run[p].pc \in {"sink_write", "clear_buffer", "rebuffer"} =>
               /\ run[p].payload = load_offline_records(offline_buffer) \o run[p].points
               /\ CycleOrdered(run[p].payload)
    /\ \A p \in Instances :
           (CycleDone(p) /\ run[p].outcome \in {"Failed", "Buffered"}
              /\ ~run[p].persistErr) =>
               load_offline_records(offline_buffer) =
                   load_offline_records(run[p].bufBefore) \o run[p].points
    /\ CycleOrdered(offline_buffer.records)

\* C4 witness: a payload of two buffered cycles' lines and new lines.
C4_Witness ==
    /\ run[1].pc = "sink_write" /\ run[1].points # <<>>
    /\ \E i, j \in 1..Len(run[1].previous) :
           run[1].previous[i][1] < run[1].previous[j][1]

\* The sequence holds no line twice.
NoDuplicates(s) == \A i, j \in 1..Len(s) : i # j => s[i] # s[j]

\* A cycle that ended without a sink write being accepted.
Undelivered(p) == CycleDone(p) /\ ~DeliveredByWrite(p)

\* C5 as stated: after a cycle with no successful delivery the buffer is
\* exactly the previous buffer followed by that cycle's new lines.
C5_Original ==
    \A p \in Instances :
        Undelivered(p) =>
            load_offline_records(offline_buffer) =
                load_offline_records(run[p].startBuf) \o run[p].points

\* C5 amended: after a cycle with no successful delivery the buffer has the
\* previous buffer as a prefix: it is exactly the previous buffer followed by
\* the cycle's new lines, or, when the buffer write raised OSError, exactly
\* the previous buffer; no line occurs in the buffer twice.
C5_AppendOnly ==
    /\ \A p \in Instances :
           Undelivered(p) =>
               load_offline_records(offline_buffer) =
                   IF run[p].persistErr
                   THEN load_offline_records(run[p].startBuf)
                   ELSE load_offline_records(run[p].startBuf) \o run[p].points
    /\ NoDuplicates(offline_buffer.records)

\* C5 witness: the third undelivered cycle in a row appended its lines to
\* the lines of the two before it.
C5_Witness ==
    /\ Undelivered(1) /\ run[1].cycle = 3 /\ ~run[1].persistErr
    /\ sinkAccepted = {}
    /\ run[1].points # <<>>
    /\ \E i, j \in 1..Len(run[1].startBuf.records) :
           run[1].startBuf.records[i][1] < run[1].startBuf.records[j][1]
    /\ Len(offline_buffer.records) =
           Len(run[1].startBuf.records) + Len(run[1].points)

\* A cycle that reached its delivery step with nothing to deliver: no
\* buffered line and no line produced.
NothingToDeliver(p) ==
    /\ CycleDone(p) /\ run[p].outcome \in {"Delivered", "Buffered", "Failed"}
    /\ load_offline_records(run[p].startBuf) = <<>> /\ run[p].points = <<>>

\* C6 as stated: with nothing to deliver the cycle reports success and makes
\* no write call.
C6_Original ==
    \A p \in Instances :
        NothingToDeliver(p) => run[p].exit = 0 /\ run[p].sinkCalls = 0

\* C6 amended: with nothing to deliver no write call is made to the sink and
\* the buffer file is left as it was; the cycle reports success exactly when
\* a sink client was built (write_points ran), and exits 1 on the buffer-only
\* path.
C6_NothingToDeliver ==
    \A p \in Instances :
        NothingToDeliver(p) =>
            /\ run[p].sinkCalls = 0
            /\ offline_buffer = run[p].startBuf
            /\ run[p].exit = (IF run[p].influx_client THEN 0 ELSE 1)
            /\ run[p].outcome = (IF run[p].influx_client THEN "Delivered" ELSE "Buffered")

\* C6 witness: write_points ran with an empty payload.
C6_Witness ==
    /\ NothingToDeliver(1) /\ run[1].influx_client
    /\ run[1].exit = 0 /\ run[1].sinkCalls = 0

\* resolve_influx_ip returned no ip in a collection cycle.
Unresolved(p) == CycleDone(p) /\ run[p].resolved /\ ~Truthy(run[p].resolved_ip)

\* C7 as stated: with no endpoint resolved the cycle makes no sink call,
\* leaves the buffer holding the buffered lines followed by the new ones and
\* exits 1.
C7_Original ==
    \A p \in Instances :
        Unresolved(p) =>
            /\ run[p].sinkCalls = 0
            /\ run[p].exit = 1
            /\ load_offline_records(offline_buffer) =
                   load_offline_records(run[p].startBuf) \o run[p].points

\* C7 amended: with no endpoint resolved the cycle makes no sink call and
\* exits 1; the buffer afterwards holds the buffered lines followed by the
\* new ones, unless the buffer write raised OSError, in which case the file
\* is left as it was.
C7_BufferOnly ==
    \A p \in Instances :
        Unresolved(p) =>
            /\ run[p].sinkCalls = 0
            /\ run[p].exit = 1
            /\ run[p].outcome = "Buffered"
            /\ load_offline_records(offline_buffer) =
                   IF run[p].persistErr
                   THEN load_offline_records(run[p].startBuf)
                   ELSE load_offline_records(run[p].startBuf) \o run[p].points
            /\ sinkAccepted \cap Range(run[p].points) = {}

\* C7 witness: a DNS failure with no cached ip for the host; the new lines
\* went into the buffer behind the old ones.
C7_Witness ==
    /\ Unresolved(1) /\ run[1].hostname = "influx" /\ run[1].dns = None
    /\ run[1].startBuf.records # <<>> /\ run[1].points # <<>>
    /\ offline_buffer.records = run[1].startBuf.records \o run[1].points

\* C8: when forward resolution of a non-empty hostname fails,
\* resolve_influx_ip returns (cached ip, true) if the cache file holds an
\* entry for that hostname and (none, false) otherwise, whether the cache
\* holds another host's entry or does not exist.
C8_DnsFallback ==
    \A p \in Instances :
        (run[p].resolved /\ run[p].hostname # "" /\ run[p].dns = None) =>
            IF run[p].cacheBefore.exists /\ run[p].cacheBefore.host = run[p].hostname
            THEN /\ run[p].resolved_ip = run[p].cacheBefore.ip
                 /\ run[p].resolved_ip \in Addresses
                 /\ run[p].from_cache
            ELSE run[p].resolved_ip = None /\ ~run[p].from_cache

\* C8 witness: the cache holds {host: influx, ip: 10.0.0.5}, resolution of
\* influx fails and the cached ip is returned.
C8_Witness ==
    /\ run[1].resolved /\ run[1].hostname = "influx" /\ run[1].dns = None
    /\ run[1].cacheBefore = [exists |-> TRUE, host |-> "influx", ip |-> "10.0.0.5"]
    /\ run[1].resolved_ip = "10.0.0.5" /\ run[1].from_cache

\* C9 as stated: called with an empty hostname, resolve_influx_ip returns
\* the cached ip whenever the cache holds an entry, and nothing only when it
\* holds none.
C9_EmptyHostname ==
    \A p \in Instances :
        (run[p].resolved /\ run[p].hostname = "") =>
            run[p].resolved_ip =
                (IF run[p].cacheBefore.exists THEN run[p].cacheBefore.ip ELSE None)

\* The outcomes of a collection cycle.
CycleOutcomes == {"ConfigMissing", "ClientFailed", "Buffered", "Failed", "Delivered"}

C11_ConfigFatal ==
    \A p \in Instances :
        run[p].missing =>
            /\ run[p].pc = "done" /\ run[p].outcome = "ConfigMissing"
            /\ run[p].exit = 1
            /\ ~run[p].sourceCalled /\ ~run[p].dnsCalled /\ ~run[p].resolved
            /\ ~run[p].healthCalled /\ run[p].sinkCalls = 0
            /\ offline_buffer = run[p].startBuf
            /\ ip_cache = run[p].cacheBefore
            /\ run[p].tokenWrite = "none"

\* C11 witness: a run with a variable missing, started when all three files
\* existed.
C11_Witness ==
    /\ run[1].missing /\ run[1].pc = "done" /\ run[1].exit = 1
    /\ offline_buffer.exists /\ ip_cache.exists /\ token_cache.exists

\* A collection cycle whose client.temperatures call raised has ended.
FetchFailedDone(p) == CycleDone(p) /\ run[p].fetchFailed

\* C12: a cycle whose source fetch raised is not ended by it: it resolves
\* the endpoint and reaches the delivery step, where the lines already in
\* the buffer head the payload handed to the sink (or the buffer-only
\* write) as in any other cycle; unless the buffer write raised, each of
\* them ends up accepted by the sink or in the buffer.
C12_FetchErrorAbsorbed ==
    \A p \in Instances :
        FetchFailedDone(p) =>
            /\ run[p].resolved
            /\ run[p].outcome \in {"Delivered", "Buffered", "Failed"}
            /\ run[p].influx_client =>
                  /\ run[p].payload =
                         load_offline_records(run[p].startBuf) \o run[p].points
                  /\ run[p].sinkCalls = (IF run[p].payload = <<>> THEN 0 ELSE 1)
            /\ ~run[p].persistErr =>
                  \A l \in Range(load_offline_records(run[p].startBuf)) :
                      l \in sinkAccepted
                        \/ l \in Range(load_offline_records(offline_buffer))

\* C12 witness: the fetch raised, nothing new was produced, and the lines an
\* earlier cycle had buffered were delivered.
C12_Witness ==
    /\ FetchFailedDone(1) /\ run[1].points = <<>>
    /\ run[1].startBuf.records # <<>>
    /\ run[1].outcome = "Delivered" /\ run[1].sinkCalls = 1
    /\ Range(run[1].startBuf.records) \subseteq sinkAccepted

\* C13: in a --check run the offline buffer file is at every step what it
\* was when the run started, whatever the probes answer, and no sink write
\* is issued.
C13_CheckReadOnly ==
    \A p \in Instances :
        run[p].check =>
            /\ offline_buffer = run[p].startBuf
            /\ run[p].sinkCalls = 0
            /\ run[p].pc \notin {"write_points", "sink_write", "clear_buffer",
                                 "rebuffer", "buffer_only"}

\* C13 witness: a --check run with both probes passing ended while the
\* buffer held lines.
C13_Witness ==
    /\ run[1].check /\ run[1].pc = "done" /\ run[1].outcome = "CheckOk"
    /\ offline_buffer.records # <<>>

\* The document resolve_influx_ip writes: the single entry {host, ip}.
IpCacheEntry(hostname, ip) == [exists |-> TRUE, host |-> hostname, ip |-> ip]

\* Forward resolution of a non-empty hostname succeeded with an address other
\* than the one cached for that hostname.
ResolvedAnew(p) ==
    /\ run[p].resolved /\ run[p].hostname # "" /\ run[p].dns # None
    /\ run[p].dns # cached_ip(run[p].hostname, run[p].cacheBefore)

\* C16 as stated: the IP cache is what it was when the run started unless
\* resolution succeeded with a new address, and then it holds exactly
\* {host: requested hostname, ip: resolved ip}.
C16_Original ==
    \A p \in Instances :
        run[p].pc # "idle" =>
            ip_cache = IF ResolvedAnew(p)
                       THEN IpCacheEntry(run[p].hostname, run[p].dns)
                       ELSE run[p].cacheBefore

\* C16 amended: the IP cache is modified only by a successful resolution
\* whose result differs from the ip cached for the requested hostname; such a
\* resolution returns (ip, false) and leaves the cache holding exactly
\* {host: requested hostname, ip: resolved ip}, unless the cache write raised
\* OSError, in which case the file is left as it was; a failed resolution,
\* an unchanged result and an empty hostname leave the file unchanged; the
\* file never holds more than one entry.
C16_IpCacheWrite ==
    /\ \A p \in Instances :
           /\ run[p].pc # "idle" =>
                  ip_cache = IF ResolvedAnew(p) /\ ~run[p].ipWriteErr
                             THEN IpCacheEntry(run[p].hostname, run[p].dns)
                             ELSE run[p].cacheBefore
           /\ ResolvedAnew(p) =>
                  run[p].resolved_ip = run[p].dns /\ ~run[p].from_cache
           /\ run[p].ipWriteErr => ResolvedAnew(p)
    /\ ip_cache = NoIpCache
         \/ \E h \in Hostnames \ {""}, a \in Addresses : ip_cache = IpCacheEntry(h, a)

\* C16 witness: the cache held another host's entry and a successful
\* resolution replaced it by the requested host's.
C16_Witness ==
    /\ ResolvedAnew(1) /\ ~run[1].ipWriteErr
    /\ run[1].cacheBefore = IpCacheEntry("other", "10.0.0.5")
    /\ run[1].hostname = "influx"
    /\ ip_cache = IpCacheEntry("influx", "10.0.0.6")
    /\ run[1].resolved_ip = "10.0.0.6" /\ ~run[1].from_cache

\* C18: an OSError on a cache write never ends the run.  A cycle in which
\* the credential-cache or the IP-cache write failed goes on to the delivery
\* step with the address just resolved, and its payload and its one write
\* call are those of a cycle without the failure; a failed buffer write is
\* followed by the exit the cycle would have made anyway; a --check run
\* still counts the source probe as passed.
C18_WriteErrorAbsorbed ==
    \A p \in Instances :
        /\ run[p].tokenWrite = "oserror" =>
              /\ run[p].pc \notin {"idle", "get_config", "build_evo_client",
                                   "fetch", "persist_token", "check_evohome"}
              /\ run[p].check => run[p].evo_ok
        /\ run[p].ipWriteErr =>
              run[p].resolved_ip = run[p].dns /\ Truthy(run[p].resolved_ip)
        /\ (run[p].tokenWrite = "oserror" \/ run[p].ipWriteErr) /\ CycleDone(p) =>
              /\ run[p].outcome \in {"Delivered", "Buffered", "Failed"}
              /\ run[p].influx_client =>
                    /\ run[p].payload =
                           load_offline_records(run[p].startBuf) \o run[p].points
                    /\ run[p].sinkCalls = (IF run[p].payload = <<>> THEN 0 ELSE 1)
        /\ run[p].persistErr =>
              run[p].pc = "done" /\ run[p].outcome \in {"Buffered", "Failed"}

\* C18 witness: both the credential-cache and the IP-cache write failed and
\* the cycle delivered the buffered and the new lines all the same.
C18_Witness ==
    /\ CycleDone(1) /\ run[1].tokenWrite = "oserror" /\ run[1].ipWriteErr
    /\ run[1].outcome = "Delivered" /\ run[1].sinkCalls = 1
    /\ run[1].startBuf.records # <<>> /\ run[1].points # <<>>
    /\ Range(run[1].payload) \subseteq sinkAccepted

\* C19 as stated: the credential cache file is replaced only in a run whose
\* source interaction succeeded, never in a run whose client construction
\* or fetch raised.
C19_TokenAfterSuccess ==
    \A p \in Instances :
        (run[p].clientFailed \/ run[p].fetchFailed) =>
            run[p].tokenWrite # "replaced"

\* build_points has built the Point of the snapshot.
PointBuilt == bp.pc \in {"append", "done"}

\* The number a reading denotes, -1 when it is missing or not numeric.
Reading(v) ==
    CASE v = Num(0) -> 0
      [] v = Str("0") -> 0
      [] v = Str("19") -> 19
      [] v = Num(18) -> 18
      [] OTHER -> -1

\* The topology zones whose identity is the identity given to the snapshot.
MetaZones == {z \in bp.installation : topology_identity(z) = bp.point.zone_id}

\* The field the precedence rule asks for: the snapshot's reading when it is
\* numeric, else the ZoneMeta reading when that is numeric, else none.
Preferred(snapshot_value, meta_values) ==
    IF Reading(snapshot_value) >= 0 THEN Num(Reading(snapshot_value))
    ELSE IF \E m \in meta_values : Reading(m) >= 0
    THEN Num(Reading(CHOOSE m \in meta_values : Reading(m) >= 0))
    ELSE PyNone

\* C14: for each of temperature, setpoint and heat demand the field of the
\* point is the snapshot's value whenever that is present and numeric,
\* whatever ZoneMeta holds; the ZoneMeta value only when the snapshot's is
\* absent or not numeric; and no field when neither is numeric.
C14_FallbackPrecedence ==
    PointBuilt =>
        /\ bp.point.temperature =
               Preferred(bp.zone.temp, {z.temperature : z \in MetaZones})
        /\ bp.point.setpoint =
               Preferred(bp.zone.setpoint, {z.targetHeatTemperature : z \in MetaZones})
        /\ bp.point.heat_demand =
               Preferred(bp.zone.heat_demand, {z.heatDemand : z \in MetaZones})

\* C14 witness: a snapshot temperature of 0 beside a ZoneMeta temperature of
\* 18 (the snapshot wins), a non-numeric snapshot setpoint beside a ZoneMeta
\* setpoint of 18 (ZoneMeta is used), and a heat demand numeric in neither
\* (no field).
C14_Witness ==
    /\ bp.pc = "done"
    /\ \E z \in MetaZones :
          /\ bp.zone.temp = Num(0) /\ z.temperature = Num(18)
          /\ bp.zone.setpoint = Str("n/a") /\ z.targetHeatTemperature = Num(18)
          /\ bp.zone.heat_demand = PyNone /\ z.heatDemand = Str("n/a")
    /\ bp.point.temperature = Num(0)
    /\ bp.point.setpoint = Num(18)
    /\ bp.point.heat_demand = PyNone

\* Nothing can be derived for the snapshot: no numeric reading, no status or
\* mode, and no ZoneMeta entry for its identity.
NothingDerivable ==
    /\ MetaZones = {}
    /\ Reading(bp.zone.temp) < 0 /\ Reading(bp.zone.setpoint) < 0
    /\ Reading(bp.zone.heat_demand) < 0
    /\ ~PyTruthy(bp.zone.status) /\ ~PyTruthy(bp.zone.mode)

\* C15 as stated: a snapshot for which nothing can be derived, also when no
\* ZoneMeta entry exists for it, produces no point.
C15_ZeroFieldSuppressed ==
    (bp.pc = "done" /\ NothingDerivable) => bp.points = <<>>

\* C20 as stated: a snapshot carrying the identifier fields (zoneId, zoneID,
\* id) of a topology zone is given that zone's identity and is matched to
\* its ZoneMeta entry.
C20_SameIdentity ==
    PointBuilt =>
        \A z \in bp.installation :
            (/\ z.id = bp.zone.id /\ z.zoneId = bp.zone.zoneId
             /\ z.zoneID = bp.zone.zoneID /\ topology_identity(z) # "") =>
                /\ bp.point.zone_id = topology_identity(z)
                /\ bp.point.zone_id \in DOMAIN bp.zone_meta

\* C17: while atomic_write_json runs, and after a crash at any step of it,
\* the cache file holds the complete previous document (or is still absent)
\* or the complete new one, never part of a document, and so does every
\* reading of it; the new document is only ever assembled in the temporary
\* file.
C17_AtomicReplace ==
    aw.pc # "off" =>
        /\ Complete(aw.target) /\ Complete(aw.seen)
        /\ aw.target = aw.old
             \/ (aw.pc = "idle" /\ ~aw.crashed /\ aw.target = File(Doc(aw.payload)))
        /\ aw.pc = "replace" => aw.tmp = File(Doc(aw.payload))

\* C17 witness: the second write crashed with part of the new document in
\* the temporary file; the cache file still holds the whole first document
\* and a reader has read it.
C17_Witness ==
    /\ aw.pc = "idle" /\ aw.crashed /\ aw.writes = 2
    /\ aw.tmp.exists /\ Len(aw.tmp.content) \in 1..(DocChunks - 1)
    /\ aw.target = File(Doc(1)) /\ aw.seen = aw.target

\* load_token_cache has returned.
TokenLoaded == tk.pc \in {"construct", "done"}

\* C21 as stated: a cached document with a numeric expires_at is reused only
\* while the clock is at most expires_at - 60; once the clock is past
\* expires_at - 60 the document is ignored and the client is built without
\* it.
C21_ExpiryMargin ==
    (TokenLoaded /\ tk.file.exists /\ DOMAIN tk.file.expires_at = {"num"}) =>
        /\ tk.tokens # None <=> tk.now <= tk.file.expires_at.num - 60
        /\ (tk.pc = "done" /\ tk.now > tk.file.expires_at.num - 60) =>
              tk.client = "fresh"

\* A line of a finished cycle of instance p, loaded from the buffer or
\* produced, that the sink has not accepted and the buffer does not hold,
\* although no buffer write and no unlink of p raised.
LostLine(p) ==
    /\ CycleDone(p) /\ ~run[p].persistErr /\ ~run[p].unlinkErr
    /\ \E l \in Owed(p) \cup Range(run[p].previous) :
          l \notin sinkAccepted /\ l \notin Range(load_offline_records(offline_buffer))

\* No run has started while another one was under way.
SingleInstance == \A p \in Instances : run[p].exclusive

\* C22: the no-loss guarantee rests on single-instance deployment: as long
\* as the runs against a data directory have followed one another no line
\* is lost, and a lost line is found only after two runs have overlapped.
C22_LossNeedsOverlap ==
    \A p \in Instances : LostLine(p) => ~SingleInstance

\* C22 witness: two cycles overlapped, both have ended without any local
\* write error, and a line one of them produced is neither accepted by the
\* sink nor in the buffer.
C22_Witness ==
    /\ \A p \in Instances :
          CycleDone(p) /\ ~run[p].persistErr /\ ~run[p].unlinkErr
    /\ ~unlinkFailedEver
    /\ \E p \in Instances : \E l \in Range(run[p].points) :
          l \notin sinkAccepted /\ l \notin Range(load_offline_records(offline_buffer))

====
